---- MODULE Spec2Model ----
(***************************************************************************)
(* The in-memory correlation broker of absher-zt-backend (src/main.rs):    *)
(* the global registry MAP, new_request and the listen task that awaits    *)
(* the one-shot channel under a deadline, the resolve and fetch handlers,  *)
(* and main with its reclaimer task.  Handlers run on several worker       *)
(* threads, so each handler is split at the points where another thread    *)
(* can observe or change the shared state: the registry operations (each   *)
(* atomic per key), the clock readings and the one-shot channel.           *)
(***************************************************************************)
EXTENDS Integers, Sequences, FiniteSets, TLC

\* ---------------------------------------------------------------- bounds
MaxRequests == 2       \* listen tasks (requesters)
MaxProviders == 2      \* resolve calls
MaxLetters == 2        \* letters of the alphabet the random source draws
MaxCreateClock == 0    \* requests arrive within this many seconds of a burst
MaxFetches == 1        \* fetch calls
MaxExtra == 1          \* a path segment has up to CODE_LEN + MaxExtra characters
MaxForeign == 1        \* characters of a path segment that are not 'A' or 'Z'

\* ------------------------------------------------------ program constants
CODE_LEN == 9
FIRST_LETTER == 65
LAST_LETTER == 90
TIMEOUT_SECS == 3 * 60 + 3
NOMINAL_SECS == 3 * 60
SWEEP_SECS == 360

Requests == 1..MaxRequests
Providers == 1..MaxProviders

\* AutofillData: the body of resolve call p is body p, so that two calls never
\* submit the same value.
Body(p) == p

\* RequestCode::new_rand: nine bytes, each drawn from b'A'..=b'Z'.  The draws
\* enumerated here are the codes whose nine bytes are the same letter, one
\* code for each of the first MaxLetters letters.
new_rand == {[i \in 1..CODE_LEN |-> FIRST_LETTER + k] : k \in 0..(MaxLetters - 1)}

Codes == new_rand

\* b'A'..=b'Z' (req_code.rs:14 and :31).
Letters == FIRST_LETTER..LAST_LETTER

\* A &str is a sequence of characters (Unicode scalar values); its bytes are
\* their UTF-8 encodings, one byte below 128 and two bytes below 2048.
RECURSIVE as_bytes(_)
as_bytes(s) ==
    IF s = <<>> THEN <<>>
    ELSE (IF Head(s) < 128
          THEN <<Head(s)>>
          ELSE <<192 + (Head(s) \div 64), 128 + (Head(s) % 64)>>) \o as_bytes(Tail(s))

\* core::str::from_utf8_unchecked: the bytes read as UTF-8.
RECURSIVE from_utf8_unchecked(_)
from_utf8_unchecked(bytes) ==
    IF bytes = <<>> THEN <<>>
    ELSE IF Head(bytes) < 128 \/ Len(bytes) = 1
         THEN <<Head(bytes)>> \o from_utf8_unchecked(Tail(bytes))
         ELSE <<(Head(bytes) - 192) * 64 + (bytes[2] - 128)>>
              \o from_utf8_unchecked(Tail(Tail(bytes)))

\* RequestCode::as_str (req_code.rs:19-21).
as_str(key) == from_utf8_unchecked(key)

\* Result<RequestCode, &'static str>.
Ok(key) == [status |-> "Ok", key |-> key, err |-> ""]
Err(msg) == [status |-> "Err", key |-> <<>>, err |-> msg]

\* A variant of from_str that checks the length of the key only.
from_str_LengthOnly(s) ==
    IF Len(as_bytes(s)) # CODE_LEN
    THEN Err("mismatched keycode length")
    ELSE Ok(as_bytes(s))

\* RequestCode::from_str (req_code.rs:27-36).
from_str(s) ==
    LET key == as_bytes(s) IN
    IF Len(key) # CODE_LEN
    THEN Err("mismatched keycode length")
    ELSE IF \E i \in 1..CODE_LEN : key[i] \notin Letters
         THEN Err("invalid character in key")
         ELSE Ok(key)

\* The characters a client puts in a path segment: the two ends of the
\* alphabet, their neighbours '@' and '[', a lower-case 'a' and a two-byte
\* e-acute.
Ends == {FIRST_LETTER, LAST_LETTER}
Foreign == {FIRST_LETTER - 1, LAST_LETTER + 1, FIRST_LETTER + 32, 233}

\* RequestedAutofillFields: seven flags, each false when omitted.
NoFields ==
    [name |-> FALSE, email |-> FALSE, phone_number |-> FALSE, id |-> FALSE,
     profile_picture |-> FALSE, license |-> FALSE, id_image |-> FALSE]

Selections == {[NoFields EXCEPT !.email = b] : b \in BOOLEAN}

\* to_json_str of a RequestedAutofillFields: the members in declaration order.
to_json_str(f) ==
    << <<"name", f.name>>, <<"email", f.email>>, <<"phone_number", f.phone_number>>,
       <<"id", f.id>>, <<"profile_picture", f.profile_picture>>,
       <<"license", f.license>>, <<"id_image", f.id_image>> >>

\* PendingRequest; notify names the request whose oneshot::Sender it holds.
\* NoEntry stands for the None of Option<PendingRequest>.
NoEntry == [notify |-> 0, data_requested |-> NoFields, expires_at |-> 0]

PendingRequest(r, selected, timeout) ==
    [notify |-> r, data_requested |-> selected, expires_at |-> timeout]

\* The instants at which the clock is read.  Requests arrive in a burst that
\* begins at `start`; the clock passes through each second of the burst and
\* then, for each second t of the burst, through the second after the nominal
\* deadline of a request made at t, its stored deadline and the second after.
Burst(start) == start..(start + MaxCreateClock)

Instants(start) ==
    Burst(start) \cup
    {t + d : t \in Burst(start),
             d \in {NOMINAL_SECS + 1, TIMEOUT_SECS, TIMEOUT_SECS + 1}}

\* Bursts begin at start-up, instant 0, and a timeout before the first sweep
\* is due.
BeforeSweep == SWEEP_SECS - TIMEOUT_SECS

VARIABLES
    clock,        \* Instant::now(), in seconds since start-up
    MAP,          \* the registry: code -> PendingRequest or NoEntry
    listener,     \* per request: the task spawned by listen
    chan,         \* per request: the oneshot channel of new_request
    prov,         \* per resolve call: its position and locals
    fetchResp,    \* the response of the latest fetch call
    mainPc,       \* position of main
    shutdown_sent,\* shutdown_tx.send(()) has run
    reclaimer,    \* the task spawned at main.rs:191
    path          \* the {code} segment of a request path and its extraction

vars == <<clock, MAP, listener, chan, prov, fetchResp, mainPc, shutdown_sent, reclaimer, path>>

\* Requests arrive during one of the bursts, or while a sweep is under way.
Arrival ==
    \/ clock \in Burst(0) \cup Burst(BeforeSweep)
    \/ reclaimer.pc = "sweeping"

NoCode == <<>>

IdleListener ==
    [pc |-> "idle", code |-> NoCode, selected |-> NoFields, created |-> 0,
     deadline |-> 0, outcome |-> "none", data |-> 0]

NewChan == [value |-> 0, tx |-> "none", rx |-> "none"]

IdleProvider ==
    [pc |-> "idle", code |-> NoCode, entry |-> NoEntry, now |-> 0, ret |-> "none"]

NoFetch ==
    [seq |-> 0, code |-> NoCode, status |-> 0, body |-> <<>>, holder |-> 0,
     in_time |-> FALSE, resolved |-> FALSE]

\* No path segment has been received: nothing is parsed, no handler has run.
NoParse == [status |-> "none", key |-> <<>>, err |-> ""]

NoPath == [text |-> <<>>, parsed |-> NoParse, key |-> NoCode]

Init ==
    /\ clock = 0
    /\ MAP = [c \in Codes |-> NoEntry]
    /\ listener = [r \in Requests |-> IdleListener]
    /\ chan = [r \in Requests |-> NewChan]
    /\ prov = [p \in Providers |-> IdleProvider]
    /\ fetchResp = NoFetch
    /\ mainPc = "defer"
    /\ shutdown_sent = FALSE
    /\ reclaimer = [pc |-> "unspawned", wake_at |-> 0, now |-> 0, todo |-> {}]
    /\ path = NoPath

\* ------------------------------------------------------------------ clock
\* The monotonic clock moves to the next of the instants.
TickOver(instants) ==
    /\ \E t \in instants :
         /\ t > clock
         /\ \A u \in instants : u > clock => t <= u
         /\ clock' = t
    /\ UNCHANGED <<MAP, listener, chan, prov, fetchResp, mainPc, shutdown_sent, reclaimer, path>>

Tick == TickOver(Instants(0))

ReclaimTick == TickOver(Instants(BeforeSweep))

\* -------------------------------------------------------------------- main
\* main.rs:176-179.  The guard returned by defer::defer is not bound to a
\* name: it is a temporary, dropped at the end of the statement, and dropping
\* it runs the closure, which sends on shutdown_tx.
MainDefer ==
    /\ mainPc = "defer"
    /\ shutdown_sent' = TRUE
    /\ mainPc' = "spawn"
    /\ UNCHANGED <<clock, MAP, listener, chan, prov, fetchResp, reclaimer, path>>

\* main.rs:191-196: tokio::spawn of the select! task; main goes on to serve.
MainSpawn ==
    /\ mainPc = "spawn"
    /\ reclaimer' = [reclaimer EXCEPT !.pc = "spawned"]
    /\ mainPc' = "serving"
    /\ UNCHANGED <<clock, MAP, listener, chan, prov, fetchResp, shutdown_sent, path>>

Serving == mainPc = "serving"

\* The first poll of the spawned task (main.rs:192-195).  select! polls its two
\* branches in a random order.  When the shutdown message is already in the
\* channel the task ends in this poll: either shutdown_rx is polled first, or
\* remove_expried is polled first, registers its sleep and returns Pending,
\* and shutdown_rx is polled next, which drops remove_expried and its sleep.
\* Otherwise the task is left sleeping.
ReclaimerFirstPoll ==
    /\ mainPc = "serving"
    /\ reclaimer.pc = "spawned"
    /\ reclaimer' =
          [reclaimer EXCEPT
             !.pc = IF shutdown_sent THEN "terminated" ELSE "sleeping",
             !.wake_at = IF shutdown_sent THEN 0 ELSE clock + SWEEP_SECS]
    /\ UNCHANGED <<clock, MAP, listener, chan, prov, fetchResp, mainPc, shutdown_sent, path>>

\* ------------------------------------------------------------- new_request
\* A variant of Vacant that takes every code for vacant.
Vacant_Always(map, code) == TRUE

\* main.rs:67-69: MAP.entry(code) is Vacant.
Vacant(map, code) == map[code] = NoEntry

\* A variant of Deadline with a timeout of four minutes.
Deadline_FourMinutes(now) == now + 4 * 60

\* main.rs:71-75: Instant::now().checked_add(Duration::from_secs(3 * 60 + 3)).
Deadline(now) == now + TIMEOUT_SECS

\* A variant of MapInsert that files the entry under every code.
MapInsert_EveryCode(map, code, entry) == [c \in DOMAIN map |-> entry]

\* main.rs:77-81: vacant.insert(PendingRequest {..}).
MapInsert(map, code, entry) == [map EXCEPT ![code] = entry]

\* Requests are numbered in the order in which they are created.
NextRequest(r) ==
    /\ listener[r].pc = "idle"
    /\ \A q \in Requests : q < r => listener[q].pc # "idle"

\* One round of the loop of new_request that finds the drawn code Occupied
\* (main.rs:66-68): nothing is inserted and the loop draws again.
NewRequestOccupied(r) ==
    /\ Serving
    /\ NextRequest(r)
    /\ Arrival
    /\ \E code \in new_rand :
         /\ ~Vacant(MAP, code)
         /\ listener' = [listener EXCEPT ![r].code = code]
    /\ UNCHANGED <<clock, MAP, chan, prov, fetchResp, mainPc, shutdown_sent, reclaimer, path>>

\* The round that finds the code Vacant (main.rs:69-84).  The entry guard holds
\* the shard's lock from the occupancy test to the insert, so the test, the
\* clock reading and the insert are one step for every other thread.
NewRequestVacant(r) ==
    /\ Serving
    /\ NextRequest(r)
    /\ Arrival
    /\ \E code \in new_rand, selected \in Selections :
         /\ Vacant(MAP, code)
         /\ MAP' = MapInsert(MAP, code, PendingRequest(r, selected, Deadline(clock)))
         /\ chan' = [chan EXCEPT ![r] = [value |-> 0, tx |-> "held", rx |-> "alive"]]
         /\ listener' = [listener EXCEPT ![r] =
               [@ EXCEPT !.pc = "sendCode", !.code = code, !.selected = selected,
                         !.created = clock, !.deadline = Deadline(clock)]]
    /\ UNCHANGED <<clock, prov, fetchResp, mainPc, shutdown_sent, reclaimer, path>>

\* ------------------------------------------------------------ listen task
\* main.rs:108: session.text(code.as_str()) succeeds; the task goes on to await.
SendCodeOk(r) ==
    /\ Serving
    /\ listener[r].pc = "sendCode"
    /\ listener' = [listener EXCEPT ![r].pc = "awaiting"]
    /\ UNCHANGED <<clock, MAP, chan, prov, fetchResp, mainPc, shutdown_sent, reclaimer, path>>

\* main.rs:108-111: the web socket is closed; the task returns and data_rcv,
\* the receiver with it, is dropped.  The registry entry stays.
SendCodeClosed(r) ==
    /\ Serving
    /\ listener[r].pc = "sendCode"
    /\ listener' = [listener EXCEPT ![r].pc = "done", ![r].outcome = "Closed"]
    /\ chan' = [chan EXCEPT ![r].rx = "dropped"]
    /\ UNCHANGED <<clock, MAP, prov, fetchResp, mainPc, shutdown_sent, reclaimer, path>>

\* main.rs:113-117: tokio's Timeout polls the receiver first; a value in the
\* channel is yielded whether or not the deadline has passed.
AwaitData(r) ==
    /\ Serving
    /\ listener[r].pc = "awaiting"
    /\ chan[r].tx = "sent"
    /\ listener' = [listener EXCEPT ![r].pc = "done", ![r].outcome = "Data",
                                    ![r].data = chan[r].value]
    /\ chan' = [chan EXCEPT ![r].rx = "dropped"]
    /\ UNCHANGED <<clock, MAP, prov, fetchResp, mainPc, shutdown_sent, reclaimer, path>>

\* main.rs:118: Ok(Err(Canceled)), the sender was dropped without a value.
AwaitCanceled(r) ==
    /\ Serving
    /\ listener[r].pc = "awaiting"
    /\ chan[r].tx = "dropped"
    /\ listener' = [listener EXCEPT ![r].pc = "done", ![r].outcome = "Canceled"]
    /\ chan' = [chan EXCEPT ![r].rx = "dropped"]
    /\ UNCHANGED <<clock, MAP, prov, fetchResp, mainPc, shutdown_sent, reclaimer, path>>

\* A variant of TimerExpired for a timer armed without the grace.
TimerExpired_Nominal(deadline, now) == now + (TIMEOUT_SECS - NOMINAL_SECS) >= deadline

\* A variant of TimerExpired for a timer that is never found expired.
TimerExpired_Never(deadline, now) == FALSE

\* The timer of timeout_at (main.rs:83) has expired.
TimerExpired(deadline, now) == now >= deadline

\* main.rs:118: Err(Elapsed).  The receiver was polled and found the channel
\* empty with the sender alive, then the timer was found expired.  The Timeout
\* future still owns the receiver when the poll returns.
AwaitElapsed(r) ==
    /\ Serving
    /\ listener[r].pc = "awaiting"
    /\ chan[r].tx = "held"
    /\ TimerExpired(listener[r].deadline, clock)
    /\ listener' = [listener EXCEPT ![r].pc = "elapsed", ![r].outcome = "Elapsed"]
    /\ UNCHANGED <<clock, MAP, chan, prov, fetchResp, mainPc, shutdown_sent, reclaimer, path>>

\* The completed Timeout future is dropped, and the receiver with it.
DropReceiver(r) ==
    /\ Serving
    /\ listener[r].pc = "elapsed"
    /\ listener' = [listener EXCEPT ![r].pc = "done"]
    /\ chan' = [chan EXCEPT ![r].rx = "dropped"]
    /\ UNCHANGED <<clock, MAP, prov, fetchResp, mainPc, shutdown_sent, reclaimer, path>>

\* ---------------------------------------------------------------- resolve
\* A variant of MapRemove that reads the entry and leaves it in the registry.
MapRemove_Get(map, code) == map

\* main.rs:132: MAP.remove(&code), whatever the entry's deadline.
MapRemove(map, code) == [map EXCEPT ![code] = NoEntry]

\* A variant of ResolveLive that does not look at the deadline.
ResolveLive_NoCheck(entry, now) == TRUE

\* main.rs:134: the predicate of the filter.
ResolveLive(entry, now) == now <= entry.expires_at

\* main.rs:132-134: Option::map and Option::filter on the removed entry.
Filter(entry, now) ==
    IF entry # NoEntry /\ ResolveLive(entry, now) THEN entry ELSE NoEntry

\* A variant of SendIsErr for a channel that accepts a value with no receiver.
SendIsErr_Never(ch) == FALSE

\* oneshot::Sender::send: an error when the receiver is gone, otherwise the
\* value is stored in the channel; the sender is consumed either way.
SendIsErr(ch) == ch.rx # "alive"

OneshotSend(ch, data) ==
    IF SendIsErr(ch)
    THEN [ch EXCEPT !.tx = "dropped"]
    ELSE [ch EXCEPT !.value = data, !.tx = "sent"]

\* Dropping a PendingRequest drops its sender: the receiver sees Canceled.
DropSender(ch) == [ch EXCEPT !.tx = "dropped"]

\* A variant of Outcome with the statuses of the two early returns exchanged.
Outcome_Exchanged(request, send_is_err) ==
    IF request = NoEntry THEN "Accepted"
    ELSE IF send_is_err THEN "NotFound" ELSE "Ok"

\* main.rs:136-145: the status of the response.
Outcome(request, send_is_err) ==
    IF request = NoEntry THEN "NotFound"
    ELSE IF send_is_err THEN "Accepted" ELSE "Ok"

\* Resolve calls are numbered in the order in which they start.
NextProvider(p) ==
    /\ prov[p].pc = "idle"
    /\ \A q \in Providers : q < p => prov[q].pc # "idle"

\* main.rs:131-132: the entry of the code, if any, is taken out of the registry.
ResolveRemove(p) ==
    /\ Serving
    /\ NextProvider(p)
    /\ \E code \in Codes :
         /\ prov' = [prov EXCEPT ![p] =
               [@ EXCEPT !.pc = "removed", !.code = code, !.entry = MAP[code]]]
         /\ MAP' = MapRemove(MAP, code)
    /\ UNCHANGED <<clock, listener, chan, fetchResp, mainPc, shutdown_sent, reclaimer, path>>

\* main.rs:134-138: the removed entry, if there is one, is filtered on a
\* reading of the clock.  An entry that fails the filter is dropped here, and
\* the call returns NotFound.
ResolveFilter(p) ==
    /\ Serving
    /\ prov[p].pc = "removed"
    /\ LET entry == prov[p].entry
           request == Filter(entry, clock)
       IN  IF request = NoEntry
           THEN /\ prov' = [prov EXCEPT ![p].pc = "done",
                                        ![p].now = IF entry = NoEntry THEN 0 ELSE clock,
                                        ![p].ret = Outcome(request, FALSE)]
                /\ chan' = IF entry = NoEntry THEN chan
                           ELSE [chan EXCEPT ![entry.notify] = DropSender(@)]
           ELSE /\ prov' = [prov EXCEPT ![p].pc = "live", ![p].now = clock]
                /\ chan' = chan
    /\ UNCHANGED <<clock, MAP, listener, fetchResp, mainPc, shutdown_sent, reclaimer, path>>

\* main.rs:140-145: request.notify.send(data) and the response.
ResolveSend(p) ==
    /\ Serving
    /\ prov[p].pc = "live"
    /\ LET r == prov[p].entry.notify
       IN  /\ prov' = [prov EXCEPT ![p].pc = "done",
                                   ![p].ret = Outcome(prov[p].entry, SendIsErr(chan[r]))]
           /\ chan' = [chan EXCEPT ![r] = OneshotSend(@, Body(p))]
    /\ UNCHANGED <<clock, MAP, listener, fetchResp, mainPc, shutdown_sent, reclaimer, path>>

\* ------------------------------------------------------------------ fetch
\* main.rs:153: the predicate of the filter.
FetchLive(entry, now) == now <= entry.expires_at

\* main.rs:152-160: the response; 404 without a body, or 200 with the JSON.
FetchResponse(entry, now) ==
    IF entry # NoEntry /\ FetchLive(entry, now)
    THEN [status |-> 200, body |-> to_json_str(entry.data_requested)]
    ELSE [status |-> 404, body |-> <<>>]

\* The statuses of resolve that report success: 200 and 202.
Success == {"Ok", "Accepted"}

\* A resolve call has returned success for request r.
Resolved(r) ==
    \E p \in Providers :
        prov[p].pc = "done" /\ prov[p].entry.notify = r /\ prov[p].ret \in Success

\* The request most recently created under the code, 0 when there is none.
Holder(code) ==
    LET made == {r \in Requests : listener[r].pc # "idle" /\ listener[r].code = code}
    IN  IF made = {} THEN 0 ELSE CHOOSE r \in made : \A q \in made : q <= r

\* A variant of Fetch that takes the entry out of the registry as resolve does.
Fetch_Remove(code) ==
    /\ Serving
    /\ fetchResp.seq < MaxFetches
    /\ LET resp == FetchResponse(MAP[code], clock)
       IN  fetchResp' = [seq |-> fetchResp.seq + 1, code |-> code,
                         status |-> resp.status, body |-> resp.body,
                         holder |-> Holder(code),
                         in_time |-> Holder(code) # 0 /\
                                     clock <= listener[Holder(code)].deadline,
                         resolved |-> Holder(code) # 0 /\ Resolved(Holder(code))]
    /\ MAP' = MapRemove(MAP, code)
    /\ UNCHANGED <<clock, listener, chan, prov, mainPc, shutdown_sent, reclaimer, path>>

\* main.rs:149-161.  MAP.get holds the shard's read lock while the clock is
\* read and the flags are copied, so the call is one step.  The response is
\* recorded with the request that held the code when the call was made,
\* whether the call was made no later than that request's deadline, and
\* whether a resolve had already returned success for it.
Fetch(code) ==
    /\ Serving
    /\ fetchResp.seq < MaxFetches
    /\ LET resp == FetchResponse(MAP[code], clock)
       IN  fetchResp' = [seq |-> fetchResp.seq + 1, code |-> code,
                         status |-> resp.status, body |-> resp.body,
                         holder |-> Holder(code),
                         in_time |-> Holder(code) # 0 /\
                                     clock <= listener[Holder(code)].deadline,
                         resolved |-> Holder(code) # 0 /\ Resolved(Holder(code))]
    /\ UNCHANGED <<clock, MAP, listener, chan, prov, mainPc, shutdown_sent, reclaimer, path>>

\* -------------------------------------------------------------- reclaimer
\* main.rs:187: the predicate of retain.
Retained(now, data) == now < data.expires_at

\* main.rs:185-186: the sleep has ended; the clock is read once for the sweep.
SweepStart ==
    /\ Serving
    /\ reclaimer.pc = "sleeping"
    /\ clock >= reclaimer.wake_at
    /\ reclaimer' = [reclaimer EXCEPT !.pc = "sweeping", !.now = clock, !.todo = Codes]
    /\ UNCHANGED <<clock, MAP, listener, chan, prov, fetchResp, mainPc, shutdown_sent, path>>

\* main.rs:187: retain visits the shards one after the other, each under its
\* own lock; the entry of a code that is not retained is removed and dropped.
SweepShard(code) ==
    /\ Serving
    /\ reclaimer.pc = "sweeping"
    /\ code \in reclaimer.todo
    /\ reclaimer' = [reclaimer EXCEPT !.todo = @ \ {code}]
    /\ IF MAP[code] # NoEntry /\ ~Retained(reclaimer.now, MAP[code])
       THEN /\ MAP' = MapRemove(MAP, code)
            /\ chan' = [chan EXCEPT ![MAP[code].notify] = DropSender(@)]
       ELSE UNCHANGED <<MAP, chan>>
    /\ UNCHANGED <<clock, listener, prov, fetchResp, mainPc, shutdown_sent, path>>

\* main.rs:184-185: retain has returned; the loop sleeps again.
SweepEnd ==
    /\ Serving
    /\ reclaimer.pc = "sweeping"
    /\ reclaimer.todo = {}
    /\ reclaimer' = [reclaimer EXCEPT !.pc = "sleeping", !.wake_at = clock + SWEEP_SECS]
    /\ UNCHANGED <<clock, MAP, listener, chan, prov, fetchResp, mainPc, shutdown_sent, path>>

\* --------------------------------------------------------- specifications
\* ------------------------------------------------------ the {code} segment
\* main.rs:108: the requester is sent code.as_str(), and a client puts that
\* text in the path of its request.
Issue(code) ==
    /\ path = NoPath
    /\ path' = [path EXCEPT !.text = as_str(code)]
    /\ UNCHANGED <<clock, MAP, listener, chan, prov, fetchResp, mainPc, shutdown_sent, reclaimer>>

\* A client appends a character of its own to the segment.
Push(ch) ==
    /\ path.parsed = NoParse
    /\ Len(path.text) < CODE_LEN + MaxExtra
    /\ ch \in Foreign =>
          Cardinality({i \in 1..Len(path.text) : path.text[i] \in Foreign}) < MaxForeign
    /\ path' = [path EXCEPT !.text = Append(@, ch)]
    /\ UNCHANGED <<clock, MAP, listener, chan, prov, fetchResp, mainPc, shutdown_sent, reclaimer>>

\* web::Path<RequestCode> (main.rs:130, :150): the segment is deserialized
\* with visit_str, that is from_str (req_code.rs:52-57).
Extract ==
    /\ path.parsed = NoParse
    /\ path' = [path EXCEPT !.parsed = from_str(path.text)]
    /\ UNCHANGED <<clock, MAP, listener, chan, prov, fetchResp, mainPc, shutdown_sent, reclaimer>>

\* main.rs:131-132, :151-152: the handler body runs only when the extraction
\* succeeded, and looks the extracted code up in the registry.
Lookup ==
    /\ path.parsed.status = "Ok"
    /\ path.key = NoCode
    /\ path' = [path EXCEPT !.key = path.parsed.key]
    /\ UNCHANGED <<clock, MAP, listener, chan, prov, fetchResp, mainPc, shutdown_sent, reclaimer>>

Listening ==
    \/ \E r \in Requests : NewRequestOccupied(r)
    \/ \E r \in Requests : NewRequestVacant(r)
    \/ \E r \in Requests : SendCodeOk(r)
    \/ \E r \in Requests : SendCodeClosed(r)
    \/ \E r \in Requests : AwaitData(r)
    \/ \E r \in Requests : AwaitCanceled(r)
    \/ \E r \in Requests : AwaitElapsed(r)
    \/ \E r \in Requests : DropReceiver(r)

Resolving(callers) ==
    \/ \E p \in callers : ResolveRemove(p)
    \/ \E p \in callers : ResolveFilter(p)
    \/ \E p \in callers : ResolveSend(p)

StartingUp ==
    \/ MainDefer
    \/ MainSpawn
    \/ ReclaimerFirstPoll

\* The program as main starts it, with its requesters and providers.
Next ==
    \/ Tick
    \/ StartingUp
    \/ Listening
    \/ Resolving(Providers)

Spec == Init /\ [][Next]_vars

\* The program under the scheduling that the tokio runtime gives it: time
\* passes, start-up completes, and a listen task whose awaitable (main.rs:83,
\* timeout_at around the receiver) has been woken by the channel or by the
\* timer is polled again.  Providers are under no obligation to call.
Fairness ==
    /\ WF_vars(Tick)
    /\ WF_vars(StartingUp)
    /\ \A r \in Requests :
          /\ WF_vars(AwaitData(r))
          /\ WF_vars(AwaitCanceled(r))
          /\ WF_vars(AwaitElapsed(r))
          /\ WF_vars(DropReceiver(r))

LiveSpec == Init /\ [][Next]_vars /\ Fairness

\* main.rs:212-216: the server future completes and main returns.  The
\* closure given to defer has run already, so nothing is sent here.
MainExit ==
    /\ mainPc = "serving"
    /\ mainPc' = "exited"
    /\ UNCHANGED <<clock, MAP, listener, chan, prov, fetchResp, shutdown_sent, reclaimer, path>>

\* The program with a main that may return, and one provider fewer.
ShutdownNext ==
    \/ Tick
    \/ StartingUp
    \/ MainExit
    \/ Listening
    \/ Resolving(1..(MaxProviders - 1))

ShutdownSpec == Init /\ [][ShutdownNext]_vars

\* The same program with a viewer that calls fetch, and one provider fewer.
FetchNext ==
    \/ Tick
    \/ StartingUp
    \/ Listening
    \/ Resolving(1..(MaxProviders - 1))
    \/ \E code \in Codes : Fetch(code)

FetchSpec == Init /\ [][FetchNext]_vars

\* The loop of remove_expried (main.rs:182-189) running beside the handlers,
\* with one provider fewer: the reclaimer is in its first sleep, no shutdown
\* message has been sent and no request has arrived until a timeout before the
\* first sweep is due.
ReclaimInit ==
    /\ clock = BeforeSweep
    /\ MAP = [c \in Codes |-> NoEntry]
    /\ listener = [r \in Requests |-> IdleListener]
    /\ chan = [r \in Requests |-> NewChan]
    /\ prov = [p \in Providers |-> IdleProvider]
    /\ fetchResp = NoFetch
    /\ mainPc = "serving"
    /\ shutdown_sent = FALSE
    /\ reclaimer = [pc |-> "sleeping", wake_at |-> SWEEP_SECS, now |-> 0, todo |-> {}]
    /\ path = NoPath

ReclaimNext ==
    \/ ReclaimTick
    \/ SweepStart
    \/ \E code \in Codes : SweepShard(code)
    \/ SweepEnd
    \/ Listening
    \/ Resolving(1..(MaxProviders - 1))

ReclaimSpec == ReclaimInit /\ [][ReclaimNext]_vars

\* The extraction of the {code} segment alone, for every segment a client
\* can send within the bounds.
CodeNext ==
    \/ \E code \in new_rand : Issue(code)
    \/ \E ch \in Ends \cup Foreign : Push(ch)
    \/ Extract
    \/ Lookup

CodeSpec == Init /\ [][CodeNext]_vars

\* ------------------------------------------------------------ properties
\* The request whose entry resolve call p took out of the registry, 0 if none.
Taken(p) == prov[p].entry.notify

\* The outcomes of the awaitable that the listen task reports as
\* "request timed out" (main.rs:118-119).
TimedOut == {"Elapsed", "Canceled"}

\* C1: at most one resolve call per created request returns success (200 or
\* 202); every other call returns NotFound, in particular every call that
\* finds no entry under its code.
C1_AtMostOneSuccess ==
    /\ \A p, q \in Providers :
          ( /\ p # q
            /\ prov[p].pc = "done" /\ prov[p].ret \in Success
            /\ prov[q].pc = "done" /\ prov[q].ret \in Success )
          => Taken(p) # Taken(q)
    /\ \A p \in Providers :
          prov[p].pc = "done" =>
             /\ prov[p].ret \in Success \cup {"NotFound"}
             /\ prov[p].ret \in Success => Taken(p) # 0
             /\ Taken(p) = 0 => prov[p].ret = "NotFound"

\* Two calls on the same code have returned; the first took the request's
\* entry and succeeded, the second found nothing.
C1_Witness ==
    \E p, q \in Providers :
        /\ prov[p].pc = "done" /\ prov[q].pc = "done"
        /\ prov[p].code = prov[q].code
        /\ prov[p].ret \in Success /\ Taken(p) # 0
        /\ prov[q].ret = "NotFound" /\ Taken(q) = 0

\* C2: for no request does a resolve call report success while the requester's
\* awaitable yields a timeout.
C2_NeverBoth ==
    \A p \in Providers :
        (prov[p].pc = "done" /\ prov[p].ret \in Success)
        => listener[Taken(p)].outcome \notin TimedOut

\* C3: a resolve call that reads the clock after the stored deadline of the
\* entry it took returns NotFound and never sends: the sender is dropped
\* without a value, so the awaitable cannot yield that payload and a waiter
\* still pending is told that the request timed out.
C3_LateResolve ==
    \A p \in Providers :
        (prov[p].pc = "done" /\ Taken(p) # 0 /\ prov[p].now > prov[p].entry.expires_at)
        => /\ prov[p].ret = "NotFound"
           /\ chan[Taken(p)].tx = "dropped"
           /\ chan[Taken(p)].value = 0
           /\ listener[Taken(p)].outcome # "Data"
           /\ listener[Taken(p)].pc = "done" =>
                 listener[Taken(p)].outcome \in TimedOut \cup {"Closed"}

\* A late call has returned and the waiter, pending until then, was cancelled.
C3_Witness ==
    \E p \in Providers :
        /\ prov[p].pc = "done" /\ Taken(p) # 0
        /\ prov[p].now > prov[p].entry.expires_at
        /\ listener[Taken(p)].pc = "done"
        /\ listener[Taken(p)].outcome = "Canceled"

\* C4: when resolve returns Delivered (200) the requester does not observe a
\* timeout, and what its awaitable yields is the body of that call.
C4_DeliveredIsReceived ==
    \A p \in Providers :
        (prov[p].pc = "done" /\ prov[p].ret = "Ok")
        => /\ listener[Taken(p)].outcome \notin TimedOut
           /\ listener[Taken(p)].outcome = "Data" => listener[Taken(p)].data = Body(p)

\* C5: no step replaces an entry that is in the registry, and the step in which
\* new_request returns inserts one entry, for that request, under a code that
\* was vacant, leaving every other code as it was; no request has entries under
\* two codes.
C5_Step ==
    /\ \A c \in Codes :
          (MAP[c] # NoEntry /\ MAP'[c] # NoEntry) => MAP'[c] = MAP[c]
    /\ \A r \in Requests :
          (listener[r].pc = "idle" /\ listener'[r].pc # "idle")
          => \E c \in Codes :
                /\ MAP[c] = NoEntry
                /\ MAP'[c].notify = r
                /\ listener'[r].code = c
                /\ \A d \in Codes \ {c} : MAP'[d] = MAP[d]
    /\ \A c, d \in Codes :
          (MAP'[c] # NoEntry /\ MAP'[c].notify = MAP'[d].notify) => c = d

\* C5: every step of the program is such a step: new_request never overwrites
\* or replaces an entry of the registry.
C5_NeverOverwrites == [][C5_Step]_vars

\* A call of new_request has drawn the code of a live entry and gone round
\* its loop, and the entry is still the one of the earlier request.
C5_Witness ==
    \E r \in Requests :
        /\ listener[r].pc = "idle"
        /\ listener[r].code # NoCode
        /\ MAP[listener[r].code] # NoEntry
        /\ MAP[listener[r].code].notify < r

\* C9 as stated: a resolve that reads the clock one second after the nominal
\* deadline of the request whose entry it took returns NotFound.
C9_NotFoundAfterNominal ==
    \A p \in Providers :
        ( /\ prov[p].pc = "done" /\ Taken(p) # 0
          /\ prov[p].now = listener[Taken(p)].created + NOMINAL_SECS + 1 )
        => prov[p].ret = "NotFound"

\* C9 amended: a resolve that reads the clock more than 183 seconds after the
\* request was created returns NotFound, and the awaitable does not yield a
\* payload: a waiter that has finished was told that the request timed out.
C9_NotFoundAfterGrace ==
    \A p \in Providers :
        ( /\ prov[p].pc = "done" /\ Taken(p) # 0
          /\ prov[p].now >= listener[Taken(p)].created + TIMEOUT_SECS + 1 )
        => /\ prov[p].ret = "NotFound"
           /\ listener[Taken(p)].outcome # "Data"
           /\ (listener[Taken(p)].pc = "done" /\ listener[Taken(p)].outcome # "Closed")
                 => listener[Taken(p)].outcome \in TimedOut

\* A resolve 184 seconds after the creation has returned and the waiter has
\* been told that the request timed out.
C9_Witness ==
    \E p \in Providers :
        /\ prov[p].pc = "done" /\ Taken(p) # 0
        /\ prov[p].now = listener[Taken(p)].created + TIMEOUT_SECS + 1
        /\ prov[p].ret = "NotFound"
        /\ listener[Taken(p)].pc = "done"
        /\ listener[Taken(p)].outcome \in TimedOut

\* No request has been created under the code.
NeverCreated(code) ==
    \A r \in Requests : listener[r].pc = "idle" \/ listener[r].code # code

\* C10: every step of a resolve call on a code under which no request has been
\* created leaves the registry and every channel as they were; the call takes
\* no entry, sends nothing and returns NotFound.
C10_Step ==
    \A p \in Providers :
        (prov'[p] # prov[p] /\ NeverCreated(prov'[p].code))
        => /\ MAP' = MAP
           /\ chan' = chan
           /\ prov'[p].entry = NoEntry
           /\ prov'[p].pc \in {"removed", "done"}
           /\ prov'[p].pc = "done" => prov'[p].ret = "NotFound"

\* C10: resolve on a code never created returns NotFound, delivers nothing
\* and leaves the registry unchanged, at every step of the call.
C10_UnknownCode == [][C10_Step]_vars

\* A call on a code never created has returned NotFound while the registry
\* holds the entry of another code.
C10_Witness ==
    \E p \in Providers :
        /\ prov[p].pc = "done"
        /\ NeverCreated(prov[p].code)
        /\ prov[p].ret = "NotFound"
        /\ \E c \in Codes : MAP[c] # NoEntry

\* C6: a peek made no later than the deadline of the request that holds the
\* code, and not after a resolve of that request, returns the fields passed at
\* its creation; a peek made after the deadline or after a successful resolve
\* returns 404.  A 404 for a peek made in time has to come from a resolve call
\* that took the entry and succeeds or has yet to return.
C6_PeekExact ==
    fetchResp.seq > 0 =>
       LET r == fetchResp.holder
       IN  /\ fetchResp.status \in {200, 404}
           /\ fetchResp.status = 200 =>
                 /\ r # 0
                 /\ fetchResp.in_time
                 /\ ~fetchResp.resolved
                 /\ fetchResp.body = to_json_str(listener[r].selected)
           /\ (fetchResp.status = 404 /\ r # 0 /\ fetchResp.in_time) =>
                 \E p \in Providers :
                    /\ Taken(p) = r
                    /\ ~(prov[p].pc = "done" /\ prov[p].ret = "NotFound")

\* C7: a sweep removes no entry that resolve and fetch treat as live at the
\* clock value the sweep read: an entry it removes has now > expires_at.
C7_Step ==
    \A c \in Codes :
        ( /\ reclaimer.pc = "sweeping"
          /\ c \in reclaimer.todo
          /\ reclaimer'.todo = reclaimer.todo \ {c}
          /\ MAP[c] # NoEntry
          /\ MAP'[c] = NoEntry )
        => reclaimer.now > MAP[c].expires_at

C8_ReclaimerAlive ==
    \A c \in Codes :
        (Serving /\ MAP[c] # NoEntry /\ clock > MAP[c].expires_at)
        => reclaimer.pc \in {"spawned", "sleeping", "sweeping"}

\* A step of listen in which the requester's socket refuses the code
\* (main.rs:108-111): listen returns and its receiver is dropped.
ClosedBy(r) ==
    /\ listener[r].pc = "sendCode"
    /\ listener'[r].outcome = "Closed"

\* A step in which resolve call p returns.
Returns(p) == prov[p].pc # "done" /\ prov'[p].pc = "done"

C11_Step ==
    /\ \A r \in Requests :
          ClosedBy(r) =>
             /\ MAP' = MAP
             /\ (\A p \in Providers : Taken(p) # r)
                   => MAP'[listener[r].code].notify = r
             /\ chan'[r].rx = "dropped"
    /\ \A p \in Providers :
          Returns(p) =>
             /\ ( /\ Taken(p) # 0
                  /\ clock <= prov[p].entry.expires_at
                  /\ chan[Taken(p)].rx = "dropped" )
                => /\ prov'[p].ret = "Accepted"
                   /\ MAP[prov[p].code].notify # Taken(p)
             /\ prov'[p].ret = "Accepted" =>
                   /\ prov[p].pc = "live"
                   /\ Taken(p) # 0
                   /\ prov[p].now <= prov[p].entry.expires_at
                   /\ chan[Taken(p)].rx = "dropped"
                   /\ chan'[Taken(p)].value = 0

\* C11: when the requester stops listening before any resolve, its entry
\* stays in the registry; a resolve on the code that reads the clock no later
\* than the deadline has taken the entry out and returns 202 Accepted, not 200
\* and not 404; and 202 is returned only by a call whose entry passed the
\* filter and whose send found the receiver already dropped, no payload being
\* stored in the channel.
C11_DeliveredButUnheard == [][C11_Step]_vars

\* The requester's socket refused the code, and a later resolve on the code,
\* in time, has returned 202.
C11_Witness ==
    \E p \in Providers :
       /\ prov[p].pc = "done" /\ prov[p].ret = "Accepted"
       /\ Taken(p) # 0
       /\ listener[Taken(p)].outcome = "Closed"
       /\ prov[p].now <= prov[p].entry.expires_at

\* The awaitable of request r has yielded, and the listen task has let go of it.
Yielded(r) ==
    /\ listener[r].pc = "done"
    /\ listener[r].outcome \in {"Data"} \cup TimedOut

\* Once the awaitable has yielded it yields nothing else.
C12_Step ==
    \A r \in Requests :
       listener[r].outcome # "none" =>
          /\ listener'[r].outcome = listener[r].outcome
          /\ listener'[r].data = listener[r].data

\* A payload is yielded only after a resolve call that took the request's
\* entry, read the clock no later than the deadline and returned 200.
C12_PayloadNeedsResolve ==
    \A r \in Requests :
       listener[r].outcome = "Data" =>
          \E p \in Providers :
             /\ prov[p].pc = "done" /\ prov[p].ret = "Ok"
             /\ Taken(p) = r
             /\ prov[p].now <= listener[r].deadline
             /\ listener[r].data = Body(p)

\* C12: an awaitable that is awaited eventually yields, and yields exactly one
\* outcome, the payload or a timeout (Elapsed or Canceled, both reported as
\* "request timed out"); it yields a payload only if a resolve succeeded for
\* its request by the deadline, so without one it yields the timeout.
C12_EventuallyOneOutcome ==
    /\ \A r \in Requests : (listener[r].pc = "awaiting") ~> Yielded(r)
    /\ [][C12_Step]_vars
    /\ []C12_PayloadNeedsResolve

\* A request that no resolve call ever took has been awaited until its timer
\* fired, and the listen task has finished with the timeout.
C12_Witness ==
    \E r \in Requests :
       /\ Yielded(r) /\ listener[r].outcome = "Elapsed"
       /\ \A p \in Providers : Taken(p) # r

\* A text of nine characters, each in 'A'..'Z'.
WellFormed(s) == Len(s) = CODE_LEN /\ \A i \in 1..Len(s) : s[i] \in Letters

RoundTrips(key) ==
    /\ WellFormed(as_str(key))
    /\ from_str(as_str(key)) = Ok(key)

\* C13: the text of a code produced by new_rand or accepted by from_str has
\* nine characters in 'A'..'Z' and parses back to the same code; from_str
\* rejects every text whose length is not nine and every text with a
\* character outside 'A'..'Z', so a handler looks up only codes extracted
\* from well-formed text.
C13_RoundTrip ==
    /\ \A key \in new_rand : RoundTrips(key)
    /\ path.parsed.status = "Ok" =>
          /\ RoundTrips(path.parsed.key)
          /\ as_str(path.parsed.key) = path.text
    /\ path.parsed # NoParse =>
          /\ Len(path.text) # CODE_LEN => path.parsed.status = "Err"
          /\ (\E i \in 1..Len(path.text) : path.text[i] \notin Letters)
                => path.parsed.status = "Err"
          /\ path.parsed.status = "Err" => ~WellFormed(path.text)
    /\ path.key # NoCode =>
          /\ WellFormed(path.text)
          /\ path.key = path.parsed.key

\* A handler has looked up a code extracted from a client's text that mixes
\* both ends of the alphabet.
C13_Witness ==
    /\ path.key # NoCode
    /\ as_str(path.key) = path.text
    /\ \E i, j \in 1..CODE_LEN :
          path.text[i] = FIRST_LETTER /\ path.text[j] = LAST_LETTER

\* C14: the shutdown message is sent when main exits and not earlier.
C14_ShutdownAtExit == shutdown_sent => mainPc = "exited"

\* C15: a resolve call that returns NotFound has left the registry as it was:
\* it took no entry out of it, an expired one included.
C15_NotFoundTakesNothing ==
    \A p \in Providers :
       (prov[p].pc = "done" /\ prov[p].ret = "NotFound") => Taken(p) = 0

\* Request r was created, its entry is no longer in the registry and no
\* resolve call took it: a sweep removed it (main.rs:187).
Swept(r) ==
    /\ listener[r].pc # "idle"
    /\ MAP[listener[r].code].notify # r
    /\ \A p \in Providers : Taken(p) # r

\* The registry as it would be had no sweep removed an entry: under a code
\* that is vacant, the entry of the first request that was swept from it.
Unswept ==
    [c \in Codes |->
       LET lost == {r \in Requests : Swept(r) /\ listener[r].code = c} IN
       IF MAP[c] = NoEntry /\ lost # {}
       THEN LET r == CHOOSE r \in lost : \A q \in lost : r <= q IN
            PendingRequest(r, listener[r].selected, listener[r].deadline)
       ELSE MAP[c]]

\* main.rs:132-136: whether a resolve of the code that reads the clock at `now`
\* has an entry to send to, or returns NotFound.
ResolveFinds(map, code, now) == Filter(map[code], now) # NoEntry

Peeks == fetchResp'.seq # fetchResp.seq

C17_Step ==
    Peeks =>
       /\ MAP' = MAP
       /\ chan' = chan
       /\ listener' = listener
       /\ prov' = prov
       /\ clock' = clock

\* C17: a peek adds, removes and changes no entry of the registry, and it
\* changes nothing else that resolve or the awaitable reads (the channels, the
\* running calls, the clock), so a later resolve meets the state it would have
\* met without the peek.
C17_PeekChangesNothing == [][C17_Step]_vars

\* A peek returned the fields of a request, and a resolve call that took the
\* request's entry afterwards has succeeded.
C17_Witness ==
    /\ fetchResp.status = 200
    /\ \E p \in Providers :
          /\ prov[p].pc = "done" /\ prov[p].ret \in Success
          /\ Taken(p) = fetchResp.holder
          /\ prov[p].code = fetchResp.code

\* Resolve call p named the code issued to request r, took r's entry, read
\* the clock between r's creation and r's deadline, and returned 200.
Routed(p, r) ==
    /\ prov[p].pc = "done" /\ prov[p].ret = "Ok"
    /\ prov[p].code = listener[r].code
    /\ Taken(p) = r
    /\ listener[r].created <= prov[p].now
    /\ prov[p].now <= listener[r].deadline

\* C18: a payload in a requester's channel, and a payload its awaitable has
\* yielded, is the body of a resolve call that named the code issued to that
\* requester, after its creation and no later than its deadline, codes being
\* issued again after a resolve; and no body reaches two requesters.
C18_NoMisrouting ==
    /\ \A r \in Requests :
          /\ chan[r].value # 0 =>
                \E p \in Providers : Routed(p, r) /\ chan[r].value = Body(p)
          /\ listener[r].outcome = "Data" =>
                \E p \in Providers : Routed(p, r) /\ listener[r].data = Body(p)
          /\ listener[r].outcome # "Data" => listener[r].data = 0
    /\ \A r, q \in Requests :
          (r # q /\ chan[r].value # 0) => chan[q].value # chan[r].value

\* The same code was issued to two requesters in turn, and each has been
\* yielded the body of the resolve call that took its own entry.
C18_Witness ==
    \E r, q \in Requests :
       /\ r # q
       /\ listener[r].code = listener[q].code
       /\ listener[r].outcome = "Data" /\ listener[q].outcome = "Data"
       /\ listener[r].data # listener[q].data

\* The deadline of a created request is never changed, in the task that awaits
\* it and in the entry that carries it.
C19_Step ==
    \A r \in Requests :
       listener[r].pc # "idle" =>
          /\ listener'[r].deadline = listener[r].deadline
          /\ listener'[r].created = listener[r].created
          /\ MAP'[listener[r].code].notify = r
                => MAP'[listener[r].code].expires_at = listener[r].deadline

C19_DeadlineKept ==
    /\ \A r \in Requests :
          listener[r].pc # "idle" =>
             listener[r].deadline >= listener[r].created + NOMINAL_SECS
    /\ \A c \in Codes :
          MAP[c] # NoEntry => MAP[c].expires_at = listener[MAP[c].notify].deadline
    /\ \A p \in Providers :
          Taken(p) # 0 => prov[p].entry.expires_at = listener[Taken(p)].deadline

C19_TimeoutNotEarly ==
    \A r \in Requests :
       listener[r].outcome \in TimedOut => clock >= listener[r].deadline

\* C19: the awaitable yields a timeout (Elapsed or Canceled) at no clock value
\* before the request's deadline, so before it the awaitable is pending or has
\* yielded the payload; the deadline is at least 180 seconds after creation
\* and is never changed once the request is created.
C19_NoEarlyTimeout ==
    /\ []C19_TimeoutNotEarly
    /\ []C19_DeadlineKept
    /\ [][C19_Step]_vars

\* The timer of a request has fired at the very second of its deadline.
C19_Witness ==
    \E r \in Requests :
       /\ listener[r].outcome = "Elapsed"
       /\ clock = listener[r].deadline
       /\ listener[r].deadline = listener[r].created + TIMEOUT_SECS

====
